---- MODULE Spec2Model ----
(***************************************************************************)
(* A model of playbooks/robusta_playbooks/popeye.py: the popeye_scan       *)
(* action, the log clean-up that precedes the JSON parse, the grouping of  *)
(* a resource's issues and the expansion of a report into rows.            *)
(*                                                                         *)
(* Text is a sequence of one-character strings.  A Python dict is a        *)
(* sequence of [key, value] records with distinct keys, in insertion       *)
(* order.  An Optional value is a sequence of length 0 (None) or 1.        *)
(***************************************************************************)
EXTENDS Integers, Sequences, FiniteSets, TLC

VARIABLES
    \* ---- clean_up_k8s_logs_from_job_output, run on its own
    cl_raw,        \* the argument of the call
    cl_logs,       \* the local "logs" as the loop rewrites it
    cl_pc,         \* "loop" | "returned"
    cl_iters,      \* passes through the loop body so far
    \* ---- group_issues_list, run on its own
    g_issues,      \* the argument of the call
    g_i,           \* issues consumed by the for loop
    grouped_issues,\* the defaultdict being filled
    g_pc,          \* "loop" | "returned"
    \* ---- the row expansion of popeye_scan, run on its own
    r_report,      \* the deserialized PopeyeReport
    r_i,           \* sections consumed by the outer for loop
    r_rows,        \* the local "scan_issues"
    r_pc,          \* "loop" | "done"
    \* ---- popeye_scan
    pc,            \* "start" | "setup" | "pending" | "try" | "except" | "report" | "returned" | "raised"
    params,        \* the PopeyeParams of the call
    sanitize_args, \* Optional: the local of that name
    spec,          \* Optional: the PodSpec built
    clock,         \* what datetime.now() returns
    uuids,         \* identifiers uuid4() has drawn so far
    start_time,    \* Optional: the local of that name
    scan_id,       \* Optional: the local of that name
    metadata,      \* Optional: the local of that name
    job_result,    \* Optional: what run_simple_job_spec returned or raised
    logs,          \* Optional: the local of that name
    scan,          \* Optional: the parsed JSON
    scan_report,   \* Optional: the PopeyeReport
    e,             \* Optional: the exception the except clause caught
    raised,        \* Optional: the exception that left popeye_scan
    events,        \* what event.emit_event was called with, in order
    jobs,          \* what run_simple_job_spec was called with, in order
    logged,        \* what logging was called with, in order
    scan_issues,   \* the local of that name
    findings       \* what event.add_finding was called with, in order

cleanVars == <<cl_raw, cl_logs, cl_pc, cl_iters>>
groupVars == <<g_issues, g_i, grouped_issues, g_pc>>
rowVars == <<r_report, r_i, r_rows, r_pc>>
scanVars == <<pc, params, sanitize_args, spec, clock, uuids, start_time, scan_id, metadata,
              job_result, logs, scan, scan_report, e, raised, events, jobs, logged,
              scan_issues, findings>>

vars == <<cleanVars, groupVars, rowVars, scanVars>>

\* Optional[T]: None, and a value that is present.
None == <<>>
Some(v) == <<v>>
IsNone(o) == o = <<>>
Val(o) == o[1]

\* ------------------------------------------------------------------ bounds

MaxLen == 5
MaxIssues == 3
MaxReportSize == 6
MaxResources == 2
MaxRowIssues == 2
MaxArgLen == 2
MaxLogLines == 2

\* ------------------------------------------------------------------ text

RECURSIVE StrOfLen(_, _)
StrOfLen(chars, n) ==
    IF n = 0 THEN {<<>>}
    ELSE {<<c>> \o s : c \in chars, s \in StrOfLen(chars, n - 1)}

StrUpTo(chars, n) == UNION {StrOfLen(chars, k) : k \in 0..n}

\* s[i:] for 0 <= i, as Python slices: past the end it is the empty text.
SliceFrom(s, i) == SubSeq(s, i + 1, Len(s))

\* str.startswith(c) for a one-character c.
startswith(s, c) == Len(s) > 0 /\ s[1] = c

\* str.find(c): the least 0-based index of c in s, or -1.
find(s, c) ==
    IF \E i \in 1..Len(s) : s[i] = c
    THEN (CHOOSE i \in 1..Len(s) : s[i] = c /\ \A j \in 1..(i - 1) : s[j] # c) - 1
    ELSE -1

\* str.rfind(c): the greatest 0-based index of c in s, or -1.
rfind(s, c) ==
    IF \E i \in 1..Len(s) : s[i] = c
    THEN (CHOOSE i \in 1..Len(s) : s[i] = c /\ \A j \in (i + 1)..Len(s) : s[j] # c) - 1
    ELSE -1

\* ------------------------------------------------------------------ dict

DictHas(d, k) == \E i \in 1..Len(d) : d[i].key = k

DictGet(d, k) == d[CHOOSE i \in 1..Len(d) : d[i].key = k].value

\* d[k] = v: an existing key keeps its place, a new key goes last.
DictPut(d, k, v) ==
    IF DictHas(d, k)
    THEN [i \in 1..Len(d) |-> IF d[i].key = k THEN [key |-> k, value |-> v] ELSE d[i]]
    ELSE Append(d, [key |-> k, value |-> v])

\* The dicts of n entries over keys and values: each key at most once.
RECURSIVE DictsOfLen(_, _, _)
DictsOfLen(keys, values, n) ==
    IF n = 0 THEN {<<>>}
    ELSE UNION {{Append(d, [key |-> k, value |-> v]) :
                    k \in keys \ {d[i].key : i \in 1..Len(d)}, v \in values} :
                d \in DictsOfLen(keys, values, n - 1)}

DictsUpTo(keys, values, n) == UNION {DictsOfLen(keys, values, m) : m \in 0..n}

Max2(a, b) == IF a >= b THEN a ELSE b
Min2(a, b) == IF a <= b THEN a ELSE b

\* ------------------------------------------------------------------ shlex

\* The characters of a CLI argument text that shlex tells apart: a word
\* character, white space and the single quote.
ArgChars == {"a", " ", "'"}

\* shlex.split (POSIX mode) over ArgChars, reading s from position i: tok is
\* the token being read (None when no token has started), inq says whether a
\* quote is open, out holds the finished tokens.  The result is the token
\* list, or ValueError ("No closing quotation") when s ends inside a quote.
RECURSIVE ShlexRead(_, _, _, _, _)
ShlexRead(s, i, tok, inq, out) ==
    IF i > Len(s)
    THEN IF inq THEN [ok |-> FALSE, tokens |-> <<>>]
         ELSE [ok |-> TRUE, tokens |-> out \o tok]
    ELSE LET c == s[i]
             cur == IF IsNone(tok) THEN <<>> ELSE Val(tok)
         IN  IF inq
             THEN IF c = "'"
                  THEN ShlexRead(s, i + 1, tok, FALSE, out)
                  ELSE ShlexRead(s, i + 1, Some(Append(cur, c)), TRUE, out)
             ELSE IF c = " "
                  THEN ShlexRead(s, i + 1, None, FALSE, out \o tok)
                  ELSE IF c = "'"
                       THEN ShlexRead(s, i + 1, Some(cur), TRUE, out)
                       ELSE ShlexRead(s, i + 1, Some(Append(cur, c)), FALSE, out)

shlex_split(s) == ShlexRead(s, 1, None, FALSE, <<>>)

\* shlex.quote: a token of safe characters as it is, the empty token as '',
\* any other between single quotes with each ' written '"'"'.
RECURSIVE QuoteEscape(_)
QuoteEscape(t) ==
    IF t = <<>> THEN <<>>
    ELSE (IF Head(t) = "'" THEN <<"'", "\"", "'", "\"", "'">> ELSE <<Head(t)>>)
         \o QuoteEscape(Tail(t))

shlex_quote(t) ==
    IF t = <<>> THEN <<"'", "'">>
    ELSE IF \A i \in 1..Len(t) : t[i] = "a" THEN t
    ELSE <<"'">> \o QuoteEscape(t) \o <<"'">>

\* shlex.join: the quoted tokens with one space between them.
RECURSIVE shlex_join(_)
shlex_join(tokens) ==
    IF tokens = <<>> THEN <<>>
    ELSE IF Len(tokens) = 1 THEN shlex_quote(tokens[1])
    ELSE shlex_quote(tokens[1]) \o <<" ">> \o shlex_join(Tail(tokens))

\* ------------------------------------- clean_up_k8s_logs_from_job_output

\* The characters of a job's output that the clean-up tells apart: the
\* opening brace, the end of a line, and two that are neither.
CleanChars == {"{", "\n", "x", "}"}

\* A loop condition that forgets the brace test.
CleanLoopCondNoBrace(text) == text # <<>>

\* while logs and not logs.startswith("{")
CleanLoopCond(text) == text # <<>> /\ ~startswith(text, "{")

\* The loop body: drop the first line, or everything when no line ends.
CleanLoopBodyLastEndline(text) ==
    LET endline_pos == rfind(text, "\n")
    IN  IF endline_pos = -1 THEN <<>> ELSE SliceFrom(text, endline_pos + 1)

CleanLoopBody(text) ==
    LET endline_pos == find(text, "\n")
    IN  IF endline_pos = -1 THEN <<>> ELSE SliceFrom(text, endline_pos + 1)

RECURSIVE clean_up_k8s_logs_from_job_output(_)
clean_up_k8s_logs_from_job_output(text) ==
    IF CleanLoopCond(text)
    THEN clean_up_k8s_logs_from_job_output(CleanLoopBody(text))
    ELSE text

\* The variables of a function that a specification does not run.
CleanIdle == cl_raw = <<>> /\ cl_logs = <<>> /\ cl_pc = "idle" /\ cl_iters = 0
GroupIdle == g_issues = <<>> /\ g_i = 0 /\ grouped_issues = <<>> /\ g_pc = "idle"
RowsIdle == r_report = <<>> /\ r_i = 0 /\ r_rows = <<>> /\ r_pc = "idle"
ScanIdle ==
    /\ pc = "idle"
    /\ params = <<>>
    /\ sanitize_args = None /\ spec = None
    /\ clock = 0 /\ uuids = 0
    /\ start_time = None /\ scan_id = None /\ metadata = None
    /\ job_result = None /\ logs = None /\ scan = None /\ scan_report = None
    /\ e = None /\ raised = None
    /\ events = <<>> /\ jobs = <<>> /\ logged = <<>> /\ scan_issues = <<>> /\ findings = <<>>

\* The function run on its own, one pass of the loop at a time.
InitClean ==
    /\ cl_raw \in StrUpTo(CleanChars, MaxLen)
    /\ cl_logs = cl_raw
    /\ cl_pc = "loop"
    /\ cl_iters = 0
    /\ GroupIdle
    /\ RowsIdle
    /\ ScanIdle

CleanLoop ==
    /\ cl_pc = "loop"
    /\ CleanLoopCond(cl_logs)
    /\ cl_logs' = CleanLoopBody(cl_logs)
    /\ cl_iters' = cl_iters + 1
    /\ UNCHANGED <<cl_raw, cl_pc>>
    /\ UNCHANGED <<groupVars, rowVars, scanVars>>

CleanReturn ==
    /\ cl_pc = "loop"
    /\ ~CleanLoopCond(cl_logs)
    /\ cl_pc' = "returned"
    /\ UNCHANGED <<cl_raw, cl_logs, cl_iters>>
    /\ UNCHANGED <<groupVars, rowVars, scanVars>>

NextClean == CleanLoop \/ CleanReturn

SpecClean == InitClean /\ [][NextClean]_vars

\* C4: for every input the clean-up terminates (each pass of the loop
\* removes at least one character, so there are at most len(input) passes
\* and a pass or the return is always possible) and returns a text that is
\* empty or starts with "{"; an input that starts with "{" comes back
\* unchanged.
C4_CleanUpEmptyOrBrace ==
    /\ cl_iters + Len(cl_logs) <= Len(cl_raw)
    /\ cl_pc = "loop" => (ENABLED CleanLoop \/ ENABLED CleanReturn)
    /\ cl_pc = "returned" =>
          /\ cl_logs = <<>> \/ cl_logs[1] = "{"
          /\ startswith(cl_raw, "{") => cl_logs = cl_raw /\ cl_iters = 0

C4_Witness ==
    /\ cl_pc = "returned"
    /\ cl_iters = 2
    /\ cl_logs # <<>>
    /\ cl_logs # cl_raw

\* Position i of s starts a line: it is the first, or follows an end of line.
LineStart(s, i) == i = 1 \/ s[i - 1] = "\n"

\* s is k characters of prepended lines (each ends with a newline, none
\* starts with "{") followed by a body that starts with "{".
PrependedAt(s, k) ==
    /\ k < Len(s)
    /\ s[k + 1] = "{"
    /\ k > 0 => s[k] = "\n"
    /\ \A i \in 1..k : LineStart(s, i) => s[i] # "{"

NoLineStartsWithBrace(s) == \A i \in 1..Len(s) : LineStart(s, i) => s[i] # "{"

\* C5: lines prepended to a body that starts with "{" are all removed and
\* the body is returned whole; an input none of whose lines starts with "{"
\* gives the empty text.
C5_CleanUpReturnsBody ==
    cl_pc = "returned" =>
        /\ \A k \in 0..Len(cl_raw) :
              PrependedAt(cl_raw, k) => cl_logs = SliceFrom(cl_raw, k)
        /\ NoLineStartsWithBrace(cl_raw) => cl_logs = <<>>

\* Two prepended lines, the first not empty, before a body that itself
\* holds a newline.
C5_Witness ==
    /\ cl_pc = "returned"
    /\ cl_iters = 2
    /\ cl_raw[1] = "x"
    /\ \E k \in 1..Len(cl_raw) : PrependedAt(cl_raw, k)
    /\ \E i \in 1..Len(cl_logs) : cl_logs[i] = "\n"

\* ------------------------------------------------------ group_issues_list

\* Issue: group, level and message (gvr is never read).  The model accepts
\* any integer as a level.
Groups == {"__root__", "c1"}
Levels == {-1, 1, 3}
Messages == {"m1", "m2"}
Issues == [group : Groups, level : Levels, message : Messages]

\* GroupedIssues' field defaults.  pydantic copies a field's default for each
\* instance, so no two instances share the list.
GroupedIssues_issues == <<>>
GroupedIssues_level == 0

\* GroupedIssues()
GroupedIssues == [issues |-> GroupedIssues_issues, level |-> GroupedIssues_level]

\* The body of the for loop, with the minimum taken for the maximum.
GroupLoopBodyMin(grouped, issue) ==
    LET group == IF DictHas(grouped, issue.group)
                 THEN DictGet(grouped, issue.group) ELSE GroupedIssues
    IN  DictPut(grouped, issue.group,
            [issues |-> Append(group.issues,
                               [level |-> issue.level, message |-> issue.message]),
             level |-> Min2(group.level, issue.level)])

\* The body of the for loop: grouped_issues[issue.group] makes the group on
\* its first use (defaultdict), then the pair is appended and the level raised.
GroupLoopBody(grouped, issue) ==
    LET group == IF DictHas(grouped, issue.group)
                 THEN DictGet(grouped, issue.group) ELSE GroupedIssues
    IN  DictPut(grouped, issue.group,
            [issues |-> Append(group.issues,
                               [level |-> issue.level, message |-> issue.message]),
             level |-> Max2(group.level, issue.level)])

RECURSIVE GroupFrom(_, _, _)
GroupFrom(grouped, issues, i) ==
    IF i > Len(issues) THEN grouped
    ELSE GroupFrom(GroupLoopBody(grouped, issues[i]), issues, i + 1)

group_issues_list(issues) == GroupFrom(<<>>, issues, 1)

\* The function run on its own, one issue at a time.
InitGroup ==
    /\ g_issues \in UNION {[1..n -> Issues] : n \in 0..MaxIssues}
    /\ g_i = 0
    /\ grouped_issues = <<>>
    /\ g_pc = "loop"
    /\ CleanIdle
    /\ RowsIdle
    /\ ScanIdle

GroupLoop ==
    /\ g_pc = "loop"
    /\ g_i < Len(g_issues)
    /\ grouped_issues' = GroupLoopBody(grouped_issues, g_issues[g_i + 1])
    /\ g_i' = g_i + 1
    /\ UNCHANGED <<g_issues, g_pc>>
    /\ UNCHANGED <<cleanVars, rowVars, scanVars>>

GroupReturn ==
    /\ g_pc = "loop"
    /\ g_i = Len(g_issues)
    /\ g_pc' = "returned"
    /\ UNCHANGED <<g_issues, g_i, grouped_issues>>
    /\ UNCHANGED <<cleanVars, rowVars, scanVars>>

NextGroup == GroupLoop \/ GroupReturn

SpecGroup == InitGroup /\ [][NextGroup]_vars

\* The issues of one group, in input order, as {level, message} pairs.
PairsOf(issues, g) ==
    LET sel == SelectSeq(issues, LAMBDA x : x.group = g)
    IN  [i \in 1..Len(sel) |-> [level |-> sel[i].level, message |-> sel[i].message]]

LevelsOf(issues, g) == {issues[i].level : i \in {j \in 1..Len(issues) : issues[j].group = g}}

IsMaxOf(m, S) == m \in S /\ \A x \in S : x <= m

GroupsAreExact ==
    /\ {grouped_issues[i].key : i \in 1..Len(grouped_issues)}
         = {g_issues[i].group : i \in 1..Len(g_issues)}
    /\ \A i, j \in 1..Len(grouped_issues) :
          grouped_issues[i].key = grouped_issues[j].key => i = j
    /\ \A i \in 1..Len(grouped_issues) :
          grouped_issues[i].value.issues = PairsOf(g_issues, grouped_issues[i].key)

\* C6 as stated: each group's level is the maximum of the levels of its
\* issues, whatever integers the levels are, and its issues are exactly its
\* own pairs in input order.
C6_LevelIsTrueMaximum ==
    g_pc = "returned" =>
        /\ GroupsAreExact
        /\ \A i \in 1..Len(grouped_issues) :
              IsMaxOf(grouped_issues[i].value.level,
                      LevelsOf(g_issues, grouped_issues[i].key))

\* C6 as amended: each group's level is the maximum of 0 and the levels of
\* its issues (the maximum of the levels when none is negative), and its
\* issues are exactly its own pairs in input order.
C6_LevelIsMaximumWithZero ==
    g_pc = "returned" =>
        /\ GroupsAreExact
        /\ \A i \in 1..Len(grouped_issues) :
              IsMaxOf(grouped_issues[i].value.level,
                      {0} \cup LevelsOf(g_issues, grouped_issues[i].key))

\* Two groups, interleaved: the first holds a higher level before a lower
\* one, the second only a negative level.
C6_Witness ==
    /\ g_pc = "returned"
    /\ Len(g_issues) = 3
    /\ Len(grouped_issues) = 2
    /\ g_issues[1].group = g_issues[3].group
    /\ g_issues[1].level = 3
    /\ g_issues[2].level = -1
    /\ g_issues[3].level = 1
    /\ grouped_issues[1].value.level = 3
    /\ grouped_issues[2].value.level = 0
    /\ Len(grouped_issues[1].value.issues) = 2

\* ------------------------------------------------- rows of a PopeyeReport

\* str.rpartition(sep) for a one-character sep: split at the last sep.
rpartition(s, sep) ==
    LET i == rfind(s, sep)
    IN  IF i = -1 THEN <<<<>>, <<>>, s>>
        ELSE <<SubSeq(s, 1, i), <<sep>>, SliceFrom(s, i + 1)>>

\* uuid.uuid4(): the n-th identifier drawn; no two draws are equal.
uuid4(n) == <<"uuid4", n>>

\* The rows of one resource of a section (the body of the loop over
\* issues_dict.items(), with its inner loop over grouped_issues.items()).
ResourceRowsFirstSlash(id, kind, resource, issuesList) ==
    LET i == find(resource, "/")
        namespace == IF i = -1 THEN <<>> ELSE SubSeq(resource, 1, i)
        name == IF i = -1 THEN resource ELSE SliceFrom(resource, i + 1)
        grouped == group_issues_list(issuesList)
    IN  [g \in 1..Len(grouped) |->
            [scan_id |-> id,
             priority |-> grouped[g].value.level,
             scan_type |-> "POPEYE",
             namespace |-> namespace,
             name |-> name,
             kind |-> kind,
             container |-> IF grouped[g].key # "__root__" THEN grouped[g].key ELSE "",
             content |-> grouped[g].value.issues]]

ResourceRows(id, kind, resource, issuesList) ==
    LET parts == rpartition(resource, "/")
        namespace == parts[1]
        name == parts[3]
        grouped == group_issues_list(issuesList)
    IN  [g \in 1..Len(grouped) |->
            [scan_id |-> id,
             priority |-> grouped[g].value.level,
             scan_type |-> "POPEYE",
             namespace |-> namespace,
             name |-> name,
             kind |-> kind,
             container |-> IF grouped[g].key # "__root__" THEN grouped[g].key ELSE "",
             content |-> grouped[g].value.issues]]

\* x or default, for an Optional x.
OrElse(x, default) == IF IsNone(x) THEN default ELSE Val(x)

RECURSIVE SectionRowsFrom(_, _, _, _)
SectionRowsFrom(id, kind, issues_dict, i) ==
    IF i > Len(issues_dict) THEN <<>>
    ELSE ResourceRows(id, kind, issues_dict[i].key, issues_dict[i].value)
         \o SectionRowsFrom(id, kind, issues_dict, i + 1)

\* The rows of one section (the body of the loop over the sanitizers).
SectionRows(id, section) ==
    SectionRowsFrom(id, section.sanitizer, OrElse(section.issues, <<>>), 1)

RECURSIVE ReportRowsFrom(_, _, _)
ReportRowsFrom(id, sanitizers, i) ==
    IF i > Len(sanitizers) THEN <<>>
    ELSE SectionRows(id, sanitizers[i]) \o ReportRowsFrom(id, sanitizers, i + 1)

\* scan_issues, once the loop over scan_report.sanitizers or [] has ended.
ReportRows(id, report) ==
    ReportRowsFrom(id, OrElse(report.sanitizers, <<>>), 1)

\* The reports the expansion is run on: resource keys with two "/" and with
\* none, one issue of the root group and one of a container.
Kinds == {"pod", "svc"}
ResourceKeys == {<<"a", "/", "b", "/", "c">>, <<"p">>}
RowIssues == {[group |-> "__root__", level |-> 1, message |-> "m1"],
              [group |-> "c1", level |-> 3, message |-> "m2"]}
RowIssueLists == UNION {[1..n -> RowIssues] : n \in 0..MaxRowIssues}
Sections ==
    [sanitizer : Kinds,
     issues : {None} \cup {Some(d) : d \in DictsUpTo(ResourceKeys, RowIssueLists, MaxResources)}]
\* The size of a section: one for the section, one for each resource and one
\* for each issue.
RECURSIVE DictSizeFrom(_, _)
DictSizeFrom(d, i) ==
    IF i > Len(d) THEN 0 ELSE 1 + Len(d[i].value) + DictSizeFrom(d, i + 1)
SectionSize(section) == 1 + DictSizeFrom(OrElse(section.issues, <<>>), 1)
RECURSIVE SectionsSizeFrom(_, _)
SectionsSizeFrom(l, i) ==
    IF i > Len(l) THEN 0 ELSE SectionSize(l[i]) + SectionsSizeFrom(l, i + 1)
SectionsOfSize == [k \in 1..(MaxReportSize + 1) |-> {x \in Sections : SectionSize(x) = k}]

\* The expansion run on its own, one section at a time.  The report's
\* sections are drawn as the loop reaches them: r_report holds the sections
\* up to the loop's position, and the list ends where RowsDone is taken.
InitRows ==
    /\ r_report \in [score : {90}, grade : {"B"}, errors : {None},
                     sanitizers : {None, Some(<<>>)}]
    /\ r_i = 0
    /\ r_rows = <<>>
    /\ r_pc = "loop"
    /\ CleanIdle
    /\ GroupIdle
    /\ ScanIdle

RowsLoop ==
    /\ r_pc = "loop"
    /\ ~IsNone(r_report.sanitizers)
    /\ \E k \in 1..(MaxReportSize - SectionsSizeFrom(Val(r_report.sanitizers), 1)) :
       \E section \in SectionsOfSize[k] :
          /\ r_report' = [r_report EXCEPT !.sanitizers = Some(Append(Val(@), section))]
          /\ r_rows' = r_rows \o SectionRows(uuid4(1), section)
    /\ r_i' = r_i + 1
    /\ UNCHANGED r_pc
    /\ UNCHANGED <<cleanVars, groupVars, scanVars>>

RowsDone ==
    /\ r_pc = "loop"
    /\ r_i = Len(OrElse(r_report.sanitizers, <<>>))
    /\ r_pc' = "done"
    /\ UNCHANGED <<r_report, r_i, r_rows>>
    /\ UNCHANGED <<cleanVars, groupVars, scanVars>>

NextRows == RowsLoop \/ RowsDone

SpecRows == InitRows /\ [][NextRows]_vars

\* The (section, resource, issue) positions at which a group of a resource
\* is seen for the first time: one per row, in row order when compared
\* position by position.
RSections == OrElse(r_report.sanitizers, <<>>)
RDict(si) == OrElse(RSections[si].issues, <<>>)
RowSlots ==
    {t \in UNION {UNION {{<<si, ri, fi>> : fi \in 1..Len(RDict(si)[ri].value)} :
                            ri \in 1..Len(RDict(si))} : si \in 1..Len(RSections)} :
        LET l == RDict(t[1])[t[2]].value
        IN  \A j \in 1..(t[3] - 1) : l[j].group # l[t[3]].group}

SlotBefore(u, t) ==
    \/ u[1] < t[1]
    \/ u[1] = t[1] /\ u[2] < t[2]
    \/ u[1] = t[1] /\ u[2] = t[2] /\ u[3] < t[3]

SlotRank(t) == 1 + Cardinality({u \in RowSlots : SlotBefore(u, t)})

\* namespace and name are key split at its last "/" (the whole key is the
\* name, and the namespace empty, when it holds none).
SplitAtLastSlash(key, namespace, name) ==
    /\ \A i \in 1..Len(name) : name[i] # "/"
    /\ IF \E i \in 1..Len(key) : key[i] = "/"
       THEN key = namespace \o <<"/">> \o name
       ELSE namespace = <<>> /\ name = key

\* C7: the rows are one per (resource, distinct group), in the order of the
\* sections, of each section's resources and of each resource's groups as
\* first seen; after each section the rows number the sum of the distinct
\* group counts of the resources so far; each row has the section's
\* sanitizer as kind, the key split at its last "/" as namespace and name,
\* and the group as container, "" for "__root__".
C7_RowsInOrder ==
    /\ r_pc # "idle" => Len(r_rows) = Cardinality({t \in RowSlots : t[1] <= r_i})
    /\ r_pc = "done" =>
          \A t \in RowSlots :
             LET row == r_rows[SlotRank(t)]
                 entry == RDict(t[1])[t[2]]
                 group == entry.value[t[3]].group
             IN  /\ row.kind = RSections[t[1]].sanitizer
                 /\ SplitAtLastSlash(entry.key, row.namespace, row.name)
                 /\ row.container = (IF group = "__root__" THEN "" ELSE group)
                 /\ row.content = PairsOf(entry.value, group)

\* Two sections of different kinds with one row each: a container's issue
\* under a key of two "/", then a root issue under a key without "/".
C7_Witness ==
    /\ r_pc = "done"
    /\ Len(RSections) = 2
    /\ RSections[1].sanitizer # RSections[2].sanitizer
    /\ Len(RDict(1)) = 1 /\ Len(RDict(2)) = 1
    /\ RDict(1)[1].key = <<"a", "/", "b", "/", "c">>
    /\ Len(r_rows) = 2
    /\ r_rows[1].container = "c1"
    /\ r_rows[1].namespace = <<"a", "/", "b">>
    /\ r_rows[2].container = ""
    /\ r_rows[2].namespace = <<>>
    /\ r_rows[2].kind = RSections[2].sanitizer

\* ------------------------------------------------------------ popeye_scan

\* PopeyeParams.  args is Optional; popeye_job_spec is the set of the keys of
\* the override map (its values are passed on unread).
ArgTexts == StrUpTo(ArgChars, MaxArgLen)
OverrideKeys == {"nodeSelector", "restartPolicy", "bogus"}
Params ==
    [timeout : {300},
     args : {None} \cup {Some(a) : a \in ArgTexts},
     popeye_args : ArgTexts,
     spinach : {"popeye: excludes"},
     popeye_job_spec : SUBSET OverrideKeys]

\* The keywords popeye_scan itself passes to PodSpec, and PodSpec's fields.
PodSpecPassed == {"serviceAccountName", "containers", "affinity", "restartPolicy"}
PodSpecFields == PodSpecPassed \cup {"nodeSelector", "tolerations"}

ValueError == [type |-> "ValueError", msg |-> "No closing quotation"]
TypeError == [type |-> "TypeError", msg |-> "unexpected or repeated keyword argument"]
KeyError == [type |-> "KeyError", msg |-> "'popeye'"]
JSONDecodeError == [type |-> "JSONDecodeError", msg |-> "Expecting value"]
ValidationError == [type |-> "ValidationError", msg |-> "validation error for PopeyeReport"]
WaitTimeout == [type |-> "Exception", msg |-> "Failed to reach wait condition"]
ApiException == [type |-> "ApiException", msg |-> "Forbidden"]

\* if params.args: an Optional text is true when it is set and not empty.
Truthy(args) == ~IsNone(args) /\ Val(args) # <<>>

\* The text handed to shlex: args when it is true, popeye_args otherwise.
ChosenArgs(p) == IF Truthy(p.args) THEN Val(p.args) ELSE p.popeye_args

\* str(x) of an Optional text, as an f-string renders it.
Str(x) == IF IsNone(x) THEN <<"N", "o", "n", "e">> ELSE Val(x)

\* The container's command line.
Command(spinach, args) ==
    <<"echo '", spinach, "' > /tmp/spinach.yaml && popeye -f /tmp/spinach.yaml ",
      args, " -o json --force-exit-zero">>

\* config=f"{params.args} \n\n {params.spinach}"
Config(p) == <<Str(p.args), " \n\n ", p.spinach>>

\* The JSON texts of the model.  After "{" a single character stands for the
\* rest of a document:
\*   R  "popeye": {"score": 90, "grade": "B", "sanitizers": [...], "errors": null}}
\*   V  "popeye": {"score": "high", "grade": "B"}}
\*   K  "other": 1}
JsonTokens == {"R", "V", "K"}

SampleSection ==
    [sanitizer |-> "pod",
     issues |-> Some(<<[key |-> <<"d", "/", "p">>,
                        value |-> <<[group |-> "__root__", level |-> 2, message |-> "m1"],
                                    [group |-> "c1", level |-> 3, message |-> "m2"]>>]>>)]

JsonDoc(token) ==
    CASE token = "R" ->
           <<[key |-> "popeye",
              value |-> [score |-> [t |-> "int", v |-> 90],
                         grade |-> [t |-> "str", v |-> "B"],
                         sanitizers |-> Some(<<SampleSection>>),
                         errors |-> None]]>>
      [] token = "V" ->
           <<[key |-> "popeye",
              value |-> [score |-> [t |-> "str", v |-> "high"],
                         grade |-> [t |-> "str", v |-> "B"],
                         sanitizers |-> None,
                         errors |-> None]]>>
      [] token = "K" ->
           <<[key |-> "other", value |-> [t |-> "int", v |-> 1]]>>

\* json.loads: white space apart, the text must be one whole document.
json_loads(text) ==
    LET t == SelectSeq(text, LAMBDA c : c # "\n")
    IN  IF Len(t) = 2 /\ t[1] = "{" /\ t[2] \in JsonTokens
        THEN [ok |-> TRUE, value |-> JsonDoc(t[2])]
        ELSE [ok |-> FALSE, value |-> <<>>]

\* PopeyeReport(**body): score must be an int and grade a str.
PopeyeReportValid(body) == body.score.t = "int" /\ body.grade.t = "str"
PopeyeReport(body) ==
    [score |-> body.score.v, grade |-> body.grade.v,
     sanitizers |-> body.sanitizers, errors |-> body.errors]

\* What the job prints: lines, each ended by a newline.
LogLines == {<<>>, <<"x">>, <<"{">>, <<"{", "R">>, <<"{", "V">>, <<"{", "K">>}
RECURSIVE JoinLines(_)
JoinLines(ls) ==
    IF ls = <<>> THEN <<>> ELSE Head(ls) \o <<"\n">> \o JoinLines(Tail(ls))
JobLogs == {JoinLines(ls) : ls \in UNION {[1..n -> LogLines] : n \in 0..MaxLogLines}}

\* What run_simple_job_spec does: it returns the logs or raises.
JobResults ==
    {[raises |-> FALSE, logs |-> l, exc |-> None] : l \in JobLogs}
    \cup {[raises |-> TRUE, logs |-> <<>>, exc |-> Some(x)] : x \in {WaitTimeout, ApiException}}

job_name(id) == <<"popeye-job-", id>>

\* update_state with a scan identifier drawn anew.
update_state_new_id(state) ==
    [name |-> "scan_updated", scan_id |-> uuid4(uuids + 1), metadata |-> Val(metadata),
     state |-> state, type |-> "POPEYE", start_time |-> Val(start_time)]

\* update_state: the keywords of the one emit_event call.
update_state(state) ==
    [name |-> "scan_updated", scan_id |-> Val(scan_id), metadata |-> Val(metadata),
     state |-> state, type |-> "POPEYE", start_time |-> Val(start_time)]

InitScan ==
    /\ pc = "start"
    /\ params \in Params
    /\ sanitize_args = None /\ spec = None
    /\ clock = 0 /\ uuids = 0
    /\ start_time = None /\ scan_id = None /\ metadata = None
    /\ job_result = None /\ logs = None /\ scan = None /\ scan_report = None
    /\ e = None /\ raised = None
    /\ events = <<>> /\ jobs = <<>> /\ logged = <<>> /\ scan_issues = <<>> /\ findings = <<>>
    /\ CleanIdle
    /\ GroupIdle
    /\ RowsIdle

\* Lines 133-175: the arguments are split and joined again and the PodSpec is
\* built.  shlex.split raises ValueError on an unclosed quote, PodSpec raises
\* TypeError on a keyword it is passed twice or does not know; neither is
\* inside a try.
BuildSpec ==
    /\ pc = "start"
    /\ LET split == shlex_split(ChosenArgs(params))
           joined == shlex_join(split.tokens)
           warned == IF Truthy(params.args)
                     THEN <<[level |-> "warning", msg |-> "args deprecated", logs |-> None]>>
                     ELSE <<>>
       IN  /\ logged' = logged \o warned
           /\ IF ~split.ok
              THEN /\ raised' = Some(ValueError)
                   /\ pc' = "raised"
                   /\ UNCHANGED <<sanitize_args, spec>>
              ELSE /\ sanitize_args' = Some(joined)
                   /\ IF \/ params.popeye_job_spec \cap PodSpecPassed # {}
                         \/ ~(params.popeye_job_spec \subseteq PodSpecFields)
                      THEN /\ raised' = Some(TypeError)
                           /\ pc' = "raised"
                           /\ UNCHANGED spec
                      ELSE /\ spec' = Some([command |-> Command(params.spinach, joined),
                                            restartPolicy |-> "Never",
                                            overrides |-> params.popeye_job_spec])
                           /\ pc' = "setup"
                           /\ UNCHANGED raised
    /\ UNCHANGED <<params, clock, uuids, start_time, scan_id, metadata, job_result, logs,
                   scan, scan_report, e, events, jobs, scan_issues, findings>>
    /\ UNCHANGED <<cleanVars, groupVars, rowVars>>

\* Lines 177-186: the start time, the identifier, the job's name in the
\* metadata.
Setup ==
    /\ pc = "setup"
    /\ start_time' = Some(clock)
    /\ scan_id' = Some(uuid4(uuids + 1))
    /\ uuids' = uuids + 1
    /\ logs' = None
    /\ metadata' = Some([job |-> [name |-> job_name(uuid4(uuids + 1)),
                                  namespace |-> "INSTALLATION_NAMESPACE"]])
    /\ pc' = "pending"
    /\ UNCHANGED <<params, sanitize_args, spec, clock, job_result, scan, scan_report, e,
                   raised, events, jobs, logged, scan_issues, findings>>
    /\ UNCHANGED <<cleanVars, groupVars, rowVars>>

\* Line 198: update_state(ScanState.PENDING)
EmitPending ==
    /\ pc = "pending"
    /\ events' = Append(events, update_state("PENDING"))
    /\ pc' = "try"
    /\ UNCHANGED <<params, sanitize_args, spec, clock, uuids, start_time, scan_id, metadata,
                   job_result, logs, scan, scan_report, e, raised, jobs, logged,
                   scan_issues, findings>>
    /\ UNCHANGED <<cleanVars, groupVars, rowVars>>

\* Lines 200-213: the job is run and its output cleaned, parsed and
\* deserialized; the first step that raises ends the block with e caught.
TryBlock ==
    /\ pc = "try"
    /\ \E result \in JobResults :
          /\ job_result' = Some(result)
          /\ jobs' = Append(jobs,
                [spec |-> Val(spec), name |-> job_name(Val(scan_id)),
                 timeout |-> params.timeout, ttl_seconds_after_finished |-> 43200,
                 delete_job_post_execution |-> FALSE])
          /\ clock' = clock + 1
          /\ IF result.raises
             THEN /\ e' = result.exc
                  /\ pc' = "except"
                  /\ UNCHANGED <<logs, scan, scan_report>>
             ELSE LET cleaned == clean_up_k8s_logs_from_job_output(result.logs)
                      parsed == json_loads(cleaned)
                  IN  /\ logs' = Some(cleaned)
                      /\ IF ~parsed.ok
                         THEN /\ e' = Some(JSONDecodeError)
                              /\ pc' = "except"
                              /\ UNCHANGED <<scan, scan_report>>
                         ELSE /\ scan' = Some(parsed.value)
                              /\ IF ~DictHas(parsed.value, "popeye")
                                 THEN /\ e' = Some(KeyError)
                                      /\ pc' = "except"
                                      /\ UNCHANGED scan_report
                                 ELSE IF ~PopeyeReportValid(DictGet(parsed.value, "popeye"))
                                 THEN /\ e' = Some(ValidationError)
                                      /\ pc' = "except"
                                      /\ UNCHANGED scan_report
                                 ELSE /\ scan_report' =
                                           Some(PopeyeReport(DictGet(parsed.value, "popeye")))
                                      /\ pc' = "report"
                                      /\ UNCHANGED e
    /\ UNCHANGED <<params, sanitize_args, spec, uuids, start_time, scan_id, metadata,
                   raised, events, logged, scan_issues, findings>>
    /\ UNCHANGED <<cleanVars, groupVars, rowVars>>

\* The message of the except clause, by the kind of e.
ExceptMessage(x) ==
    IF x.type = "JSONDecodeError" THEN "Popeye scan job failed. Expecting json result."
    ELSE IF x.type = "ValidationError" THEN "Popeye scan job failed. Result format issue."
    ELSE IF x.msg = "Failed to reach wait condition"
         THEN "Popeye scan job failed. The job wait condition timed out"
    ELSE "Popeye scan job unexpected error."

\* An except clause that logs and returns without the FAILED event.
ExceptBlockSilent ==
    /\ pc = "except"
    /\ logged' = logged \o <<[level |-> "exception", msg |-> ExceptMessage(Val(e)), logs |-> logs],
                             [level |-> "error", msg |-> "Logs", logs |-> logs]>>
    /\ pc' = "returned"
    /\ UNCHANGED <<params, sanitize_args, spec, clock, uuids, start_time, scan_id, metadata,
                   job_result, logs, scan, scan_report, e, raised, jobs, scan_issues,
                   findings, events>>
    /\ UNCHANGED <<cleanVars, groupVars, rowVars>>

\* Lines 214-226: the failure is logged by its kind, the logs are logged, the
\* FAILED event is emitted and the action returns.
ExceptBlock ==
    /\ pc = "except"
    /\ logged' = logged \o <<[level |-> "exception", msg |-> ExceptMessage(Val(e)), logs |-> logs],
                             [level |-> "error", msg |-> "Logs", logs |-> logs]>>
    /\ events' = Append(events, update_state("FAILED"))
    /\ pc' = "returned"
    /\ UNCHANGED <<params, sanitize_args, spec, clock, uuids, start_time, scan_id, metadata,
                   job_result, logs, scan, scan_report, e, raised, jobs, scan_issues,
                   findings>>
    /\ UNCHANGED <<cleanVars, groupVars, rowVars>>

\* Lines 228-271: the report block, its rows, and the finding.
ReportBlock ==
    /\ pc = "report"
    /\ LET rows == ReportRows(Val(scan_id), Val(scan_report))
           scan_block == [title |-> "Popeye scan",
                          scan_id |-> Val(scan_id),
                          type |-> "POPEYE",
                          start_time |-> Val(start_time),
                          end_time |-> clock,
                          score |-> Val(scan_report).score,
                          metadata |-> Val(metadata),
                          results |-> rows,
                          config |-> Config(params)]
       IN  /\ scan_issues' = rows
           /\ findings' = Append(findings,
                 [title |-> "Popeye Report", source |-> "MANUAL",
                  aggregation_key |-> "PopeyeReport", finding_type |-> "REPORT",
                  failure |-> FALSE,
                  enrichments |-> <<[blocks |-> <<scan_block>>, annotations |-> {"SCAN"}]>>])
    /\ pc' = "returned"
    /\ UNCHANGED <<params, sanitize_args, spec, clock, uuids, start_time, scan_id, metadata,
                   job_result, logs, scan, scan_report, e, raised, events, jobs, logged>>
    /\ UNCHANGED <<cleanVars, groupVars, rowVars>>

Init == InitScan

Next == BuildSpec \/ Setup \/ EmitPending \/ TryBlock \/ ExceptBlock \/ ReportBlock

Spec == Init /\ [][Next]_vars

\* How many events of a state were emitted.
Emitted(state) == Cardinality({i \in 1..Len(events) : events[i].state = state})

Ended == pc \in {"returned", "raised"}

\* C1: one call emits exactly one PENDING event, before the job is
\* submitted, and then either submits one finding or emits one FAILED event,
\* never both and never neither, whatever the parameters.
C1_OnePendingThenOneOutcome ==
    /\ jobs # <<>> => events # <<>> /\ events[1].state = "PENDING"
    /\ Ended =>
          /\ Emitted("PENDING") = 1
          /\ \/ Len(findings) = 1 /\ Emitted("FAILED") = 0
             \/ Len(findings) = 0 /\ Emitted("FAILED") = 1

\* C2: no exception leaves popeye_scan, whatever the parameters and whatever
\* the job runner does.
C2_NeverRaises == pc # "raised" /\ raised = None

\* One of the steps of the try block failed: the runner raised, or the
\* cleaned output is not one JSON document, or the document has not the
\* shape of a report.
JobRaised == ~IsNone(job_result) /\ Val(job_result).raises
CleanedOutput == clean_up_k8s_logs_from_job_output(Val(job_result).logs)
OutputIsJson ==
    /\ ~IsNone(job_result) /\ ~Val(job_result).raises
    /\ \E token \in JsonTokens :
          SelectSeq(CleanedOutput, LAMBDA c : c # "\n") = <<"{", token>>
OutputIsReport ==
    /\ OutputIsJson
    /\ SelectSeq(CleanedOutput, LAMBDA c : c # "\n")[2] = "R"
StepFailed == ~IsNone(job_result) /\ ~OutputIsReport

\* C3: when the job run, the clean-up, the parse or the deserialization
\* fails, exactly one FAILED event is emitted, no finding is submitted and
\* no row is built; a finding is submitted only when every step succeeded,
\* and then no FAILED event is emitted.
C3_FailureGivesOneFailedAndNoFinding ==
    /\ pc = "returned" /\ StepFailed =>
          Emitted("FAILED") = 1 /\ findings = <<>> /\ scan_issues = <<>>
    /\ findings # <<>> =>
          ~IsNone(job_result) /\ ~StepFailed /\ Emitted("FAILED") = 0

\* The spec's failure scenario: output none of whose lines starts with "{"
\* cleans to the empty text, which is no JSON.
C3_Witness ==
    /\ pc = "returned"
    /\ ~Val(job_result).raises
    /\ Val(job_result).logs # <<>>
    /\ logs = Some(<<>>)
    /\ e = Some(JSONDecodeError)
    /\ Emitted("FAILED") = 1
    /\ findings = <<>>

\* The message logged with logging.exception.
ExceptionLogged(msg) ==
    \E i \in 1..Len(logged) : logged[i].level = "exception" /\ logged[i].msg = msg

\* C8: each failure is logged with the message of its kind: a wait timeout
\* with the timeout message, output that is no JSON with "Expecting json
\* result", JSON without the shape of a report (a missing "popeye" key, a
\* field of a wrong type) with "Result format issue", and only the other
\* errors with "unexpected error".
C8_MessageOfItsKind ==
    pc = "returned" /\ StepFailed =>
        /\ Emitted("FAILED") = 1
        /\ IF JobRaised
           THEN IF Val(job_result).exc = Some(WaitTimeout)
                THEN ExceptionLogged("Popeye scan job failed. The job wait condition timed out")
                ELSE ExceptionLogged("Popeye scan job unexpected error.")
           ELSE IF ~OutputIsJson
                THEN ExceptionLogged("Popeye scan job failed. Expecting json result.")
                ELSE ExceptionLogged("Popeye scan job failed. Result format issue.")

\* The text between the fixed parts of the container's command.
CommandArgs == Val(spec).command[4]

\* C9: the command is run with args when it is set and not empty and with
\* popeye_args otherwise, and on success the report block's config shows the
\* args the scan was run with (as given or as sanitized) and the spinach text.
C9_ConfigShowsArgsUsed ==
    /\ ~IsNone(spec) =>
          LET used == IF ~IsNone(params.args) /\ Len(Val(params.args)) > 0
                      THEN Val(params.args) ELSE params.popeye_args
          IN  CommandArgs = shlex_join(shlex_split(used).tokens)
    /\ findings # <<>> =>
          LET config == findings[1].enrichments[1].blocks[1].config
              used == IF ~IsNone(params.args) /\ Len(Val(params.args)) > 0
                      THEN Val(params.args) ELSE params.popeye_args
          IN  /\ config[1] \in {used, CommandArgs}
              /\ config[3] = params.spinach

\* C10: one identifier is used throughout a call: by the PENDING and FAILED
\* events, the report block and every row; the job is submitted at most once,
\* under the name popeye-job-<id>; the events carry the same metadata and
\* start time.
C10_OneScanId ==
    /\ Len(jobs) <= 1
    /\ Len(events) <= 2
    /\ \A j \in 1..Len(jobs) : jobs[j].name = <<"popeye-job-", Val(scan_id)>>
    /\ \A i \in 1..Len(events) :
          /\ events[i].scan_id = Val(scan_id)
          /\ events[i].metadata = events[1].metadata
          /\ events[i].start_time = events[1].start_time
          /\ events[i].metadata.job.name = <<"popeye-job-", Val(scan_id)>>
    /\ \A f \in 1..Len(findings) :
          LET block == findings[f].enrichments[1].blocks[1]
          IN  /\ block.scan_id = events[1].scan_id
              /\ block.metadata = events[1].metadata
              /\ block.start_time = events[1].start_time
              /\ \A r \in 1..Len(block.results) :
                    block.results[r].scan_id = events[1].scan_id

\* A failed call: the job was submitted once, PENDING and FAILED were emitted.
C10_Witness ==
    /\ pc = "returned"
    /\ Len(jobs) = 1
    /\ Len(events) = 2
    /\ events[1].state = "PENDING"
    /\ events[2].state = "FAILED"
    /\ clock > events[2].start_time

====
